---- MODULE Spec2Model ----
(***************************************************************************)
(* Model of validation/validation.py: the three reference simulations      *)
(* (third_order_system, rl_circuit_open, rl_circuit_closed), the CSV       *)
(* loader, the plotting helper and the module-level script.                *)
(*                                                                         *)
(* Numbers are exact rationals <<n, d>> (d > 0, lowest terms) standing for *)
(* the floats of the program.  Polynomials are coefficient sequences,      *)
(* highest degree first, as numpy and the control library keep them.       *)
(* A step response is kept as the pair (T, sys): the time vector it is     *)
(* sampled on and the system it is the response of.                        *)
(***************************************************************************)
EXTENDS Integers, Sequences, FiniteSets, TLC

\* ------------------------------------------------------------ bounds
MaxT == 2
MaxLen == 3
MaxCalls == 2
MaxCoef == 1
MaxDeg == 1
StepsPerSecond == 1000
MaxSimTime == 12

\* ------------------------------------------------------------ rationals
\* a numpy array holds its elements: they are computed when it is built
Array(f) == IF f = f THEN f ELSE f

Abs(x) == IF x < 0 THEN -x ELSE x

RECURSIVE Gcd(_, _)
Gcd(a, b) == IF b = 0 THEN a ELSE Gcd(b, a % b)

Rat(n, d) ==
    LET s == IF d < 0 THEN -1 ELSE 1
        g == Gcd(Abs(n), Abs(d))
    IN  <<(s * n) \div g, (s * d) \div g>>

ToFloat(i) == <<i, 1>>
RZero == ToFloat(0)
ROne == ToFloat(1)
RAdd(x, y) == Rat(x[1] * y[2] + y[1] * x[2], x[2] * y[2])
RMul(x, y) == Rat(x[1] * y[1], x[2] * y[2])
RNeg(x) == <<-x[1], x[2]>>
RDiv(x, y) == Rat(x[1] * y[2], x[2] * y[1])
RPos(x) == x[1] > 0

\* ------------------------------------------------------------ polynomials
Last(s) == s[Len(s)]

AllZero(p) == \A i \in 1..Len(p) : p[i] = RZero

\* leading zero coefficients are dropped, one coefficient is always kept
RECURSIVE Truncate(_)
Truncate(p) ==
    IF Len(p) > 1 /\ p[1] = RZero THEN Truncate(Tail(p)) ELSE p

RECURSIVE RSum(_, _)
RSum(f, n) == IF n = 0 THEN RZero ELSE RAdd(f[n], RSum(f, n - 1))

\* numpy.polymul: coefficient k of the product is the convolution sum
PolyMul(p, q) ==
    Array([k \in 1..(Len(p) + Len(q) - 1) |->
        RSum([i \in 1..Len(p) |->
                 IF k + 1 - i \in 1..Len(q) THEN RMul(p[i], q[k + 1 - i]) ELSE RZero],
             Len(p))])

\* numpy.polyadd: the shorter operand is padded with leading zeros
PadTo(p, n) == [i \in 1..n |-> IF i <= n - Len(p) THEN RZero ELSE p[i - (n - Len(p))]]

PolyAdd(p, q) ==
    LET n == IF Len(p) > Len(q) THEN Len(p) ELSE Len(q)
    IN  Array([i \in 1..n |-> RAdd(PadTo(p, n)[i], PadTo(q, n)[i])])

PolyScale(c, p) == Array([i \in 1..Len(p) |-> RMul(c, p[i])])

FloatPoly(p) == Array([i \in 1..Len(p) |-> ToFloat(p[i])])

\* ------------------------------------------------------------ matrices
RECURSIVE ISum(_, _)
ISum(f, n) == IF n = 0 THEN 0 ELSE f[n] + ISum(f, n - 1)

Dim(A) == Len(A)
Identity(n) == [i \in 1..n |-> [j \in 1..n |-> IF i = j THEN 1 ELSE 0]]
MatMul(A, M) ==
    Array([i \in 1..Len(A) |-> [j \in 1..Len(M[1]) |->
        ISum([k \in 1..Len(M) |-> A[i][k] * M[k][j]], Len(M))]])
MatAddDiag(M, c) ==
    Array([i \in 1..Len(M) |-> [j \in 1..Len(M) |-> M[i][j] + (IF i = j THEN c ELSE 0)]])
Trace(M) == ISum([i \in 1..Len(M) |-> M[i][i]], Len(M))

\* ------------------------------------------------------------ LTI systems
\* control.ss(A, B, C, D)
Ss(A, B, C, D) == [kind |-> "ss", A |-> A, B |-> B, C |-> C, D |-> D]

LibError(e) == [kind |-> "error", err |-> e]
IsError(x) == x.kind = "error"

\* the zero denominator goes unnoticed
TfUnchecked(num, den) ==
    IF AllZero(num) THEN [kind |-> "tf", num |-> <<RZero>>, den |-> <<ROne>>]
    ELSE [kind |-> "tf", num |-> Truncate(num), den |-> Truncate(den)]

\* control.tf(num, den): leading zeros are truncated, a zero denominator is
\* refused, and a zero numerator gets the denominator 1.  Common factors of
\* numerator and denominator are kept.
Tf(num, den) ==
    IF AllZero(den) THEN LibError("ValueError")
    ELSE IF AllZero(num) THEN [kind |-> "tf", num |-> <<RZero>>, den |-> <<ROne>>]
    ELSE [kind |-> "tf", num |-> Truncate(num), den |-> Truncate(den)]

\* Faddeev-LeVerrier: M_1 = I, c_(n-k) = -tr(A M_k)/k, M_(k+1) = A M_k + c_(n-k) I.
\* den collects the characteristic polynomial, num the coefficients C M_k B.
RECURSIVE Leverrier(_, _, _, _, _)
Leverrier(sys, k, M, den, num) ==
    LET AM == MatMul(sys.A, M)
        c == (0 - Trace(AM)) \div k
        cmb == MatMul(MatMul(sys.C, M), sys.B)[1][1]
    IN  IF k > Dim(sys.A) THEN <<num, den>>
        ELSE Leverrier(sys, k + 1, MatAddDiag(AM, c), Append(den, c), Append(num, cmb))

\* state space -> transfer function: C adj(sI - A) B + D det(sI - A) over det(sI - A)
Ss2Tf(sys) ==
    LET r == Leverrier(sys, 1, Identity(Dim(sys.A)), <<1>>, <<0>>)
        den == FloatPoly(r[2])
        num == PolyAdd(FloatPoly(r[1]), PolyScale(ToFloat(sys.D[1][1]), den))
    IN  Tf(num, den)

ToTf(sys) == IF sys.kind = "ss" THEN Ss2Tf(sys) ELSE sys

Front(p) == SubSeq(p, 1, Len(p) - 1)

\* a transfer function with the common factors s of numerator and
\* denominator cancelled
RECURSIVE CancelS(_)
CancelS(sys) ==
    IF /\ Len(sys.num) > 1 /\ Len(sys.den) > 1
       /\ Last(sys.num) = RZero /\ Last(sys.den) = RZero
    THEN CancelS([sys EXCEPT !.num = Front(sys.num), !.den = Front(sys.den)])
    ELSE sys

\* the product with the common factors s cancelled
SeriesCancelled(g1, g2) ==
    LET a == ToTf(g1)
        b == ToTf(g2)
    IN  CancelS(Tf(PolyMul(a.num, b.num), PolyMul(a.den, b.den)))

\* pid * plant: both operands as transfer functions, numerators and
\* denominators multiplied
Series(g1, g2) ==
    LET a == ToTf(g1)
        b == ToTf(g2)
    IN  Tf(PolyMul(a.num, b.num), PolyMul(a.den, b.den))

\* the feedback taken with the sign +1
FeedbackPositive(sys, other) ==
    Tf(PolyMul(sys.num, other.den),
       PolyAdd(PolyMul(other.den, sys.den),
               PolyScale(ToFloat(-1), PolyMul(other.num, sys.num))))

\* control.feedback(sys, other) with the default sign -1:
\* num1 den2 / (den2 den1 + num2 num1)
Feedback(sys, other) ==
    Tf(PolyMul(sys.num, other.den),
       PolyAdd(PolyMul(other.den, sys.den), PolyMul(other.num, sys.num)))

Unity == Tf(<<ROne>>, <<ROne>>)

Order(sys) == Len(sys.den) - 1

\* ------------------------------------------------------------ state
VARIABLES
    \* the module-level script
    pc,                 \* the statement the script is at
    gca,                \* the subplot pyplot draws on (0: none yet)
    axes,               \* what each subplot of the figure holds
    shown,              \* plt.show() was called
    error,              \* the exception that ended the script ("none" if none)
    time_3rd_order, output_3rd_order, ref_3rd_order,
    time_rl_open, output_rl_open, ref_rl_open,
    time_rl_closed, output_rl_closed, ref_rl_closed,
    \* a caller of the three simulation functions
    cpc,                \* "idle", or "ready" once an argument is built
    fn,                 \* the function called last
    arg,                \* the caller's time array
    ret,                \* what the last call returned or raised
    history,            \* the <<function, argument, result>> triples observed
    ncalls,
    lib_single,         \* what the library in use does with a one-point T
    \* composition of transfer functions
    g1, g2, open_loop, closed_loop,
    \* the step response of one system, sample by sample
    sim_sys,            \* the system simulated
    sim_x,              \* its state vector, in units of 1/Scale
    sim_k               \* the number of time steps taken

scriptVars ==
    <<pc, gca, axes, shown, error,
      time_3rd_order, output_3rd_order, ref_3rd_order,
      time_rl_open, output_rl_open, ref_rl_open,
      time_rl_closed, output_rl_closed, ref_rl_closed>>
callVars == <<cpc, fn, arg, ret, history, ncalls>>
algVars == <<g1, g2, open_loop, closed_loop>>
simVars == <<sim_sys, sim_x, sim_k>>
vars == <<scriptVars, callVars, algVars, simVars, lib_single>>

None == [kind |-> "none"]

\* ------------------------------------------------------------ inputs
\* strictly increasing, non-negative time grids of at most MaxLen points
RECURSIVE GridsFrom(_, _)
GridsFrom(lo, n) ==
    IF n = 0 THEN {<<>>}
    ELSE {<<>>} \cup
         UNION {{<<t>> \o g : g \in GridsFrom(t + 1, n - 1)} : t \in lo..MaxT}

Grids == GridsFrom(0, MaxLen)

FloatSeq(s) == [i \in 1..Len(s) |-> ToFloat(s[i])]

\* ------------------------------------------------------------ simulation
\* numpy.linspace(0, stop, num): num samples from 0 to stop inclusive
Linspace(stop, num) ==
    IF num = 1 THEN <<RZero>>
    ELSE [i \in 1..num |-> RDiv(RMul(ToFloat(i - 1), stop), ToFloat(num - 1))]

\* control.step_response(sys, T): the response of sys sampled on T.  What
\* the library does with a T of a single point depends on its version:
\* lib_single is that version's answer.
StepResponse(sys, T) ==
    IF Len(T) = 1 /\ lib_single = "ValueError" THEN LibError("ValueError")
    ELSE [kind |-> "response", T |-> T, sys |-> sys]

\* the simulation goes on from where the last call ended
SimulateContinued(sys, time) ==
    IF Len(time) = 0 THEN LibError("IndexError")
    ELSE LET T == Linspace(Last(time), Len(time))
             t0 == IF ret.kind = "response" THEN Last(ret.T) ELSE RZero
         IN  StepResponse(sys, [i \in 1..Len(T) |-> RAdd(T[i], t0)])

\* T = np.linspace(0, time[-1], len(time)); return step_response(sys, T)
\* time[-1] raises IndexError on an empty array
Simulate(sys, time) ==
    IF Len(time) = 0 THEN LibError("IndexError")
    ELSE StepResponse(sys, Linspace(Last(time), Len(time)))

KpThird == 25
KiThird == 0
KdThird == 0
KpRL == 1
KiRL == 0
KdRL == 0

PlantThird ==
    Ss(<<<<0, 1, 0>>, <<0, 0, 1>>, <<-6, -11, -6>>>>,
       <<<<0>>, <<0>>, <<1>>>>,
       <<<<1, 0, 0>>>>,
       <<<<0>>>>)

\* the gains in the order Kp, Ki, Kd
PidThirdMisordered == Tf(FloatPoly(<<KpThird, KiThird, KdThird>>), FloatPoly(<<1, 0>>))

PidThird == Tf(FloatPoly(<<KdThird, KpThird, KiThird>>), FloatPoly(<<1, 0>>))
OpenLoopThird == Series(PidThird, PlantThird)
ClosedLoopThird == Feedback(OpenLoopThird, Unity)

\* the output matrix without the factor 1/L = 20
PlantRLOpenUnscaled == Ss(<<<<-100>>>>, <<<<1>>>>, <<<<1>>>>, <<<<0>>>>)

PlantRLOpen == Ss(<<<<-100>>>>, <<<<1>>>>, <<<<20>>>>, <<<<0>>>>)

PlantRLClosed == Tf(<<ROne>>, <<Rat(5, 100), ToFloat(5)>>)
PidRL == Tf(FloatPoly(<<KdRL, KpRL, KiRL>>), FloatPoly(<<1, 0>>))
OpenLoopRL == Series(PidRL, PlantRLClosed)
ClosedLoopRL == Feedback(OpenLoopRL, Unity)

third_order_system(time) == Simulate(ClosedLoopThird, time)
rl_circuit_open(time) == Simulate(PlantRLOpen, time)
rl_circuit_closed(time) == Simulate(ClosedLoopRL, time)

\* ------------------------------------------------------------ callers
ScriptIdle ==
    /\ pc = "off" /\ gca = 0 /\ axes = <<>> /\ shown = FALSE
    /\ error = "none"
    /\ time_3rd_order = <<>> /\ output_3rd_order = <<>> /\ ref_3rd_order = None
    /\ time_rl_open = <<>> /\ output_rl_open = <<>> /\ ref_rl_open = None
    /\ time_rl_closed = <<>> /\ output_rl_closed = <<>> /\ ref_rl_closed = None

CallerIdle ==
    /\ cpc = "off" /\ fn = "none" /\ arg = <<>> /\ ret = None
    /\ history = {} /\ ncalls = 0

AlgebraIdle == g1 = None /\ g2 = None /\ open_loop = None /\ closed_loop = None

SimIdle == sim_sys = None /\ sim_x = <<>> /\ sim_k = 0

InitCalls ==
    /\ ScriptIdle
    /\ AlgebraIdle
    /\ SimIdle
    /\ cpc = "idle" /\ fn = "none" /\ arg = <<>> /\ ret = None
    /\ history = {} /\ ncalls = 0
    /\ lib_single \in {"response", "ValueError"}

\* the caller builds a time array
Prepare ==
    /\ cpc = "idle"
    /\ ncalls < MaxCalls
    /\ \E time \in Grids : arg' = FloatSeq(time)
    /\ cpc' = "ready"
    /\ UNCHANGED <<fn, ret, history, ncalls, lib_single, scriptVars, algVars, simVars>>

Returned(f, r) ==
    /\ cpc = "ready"
    /\ cpc' = "idle"
    /\ fn' = f
    /\ ret' = r
    /\ arg' = arg
    /\ history' = history \cup {<<f, arg, r>>}
    /\ ncalls' = ncalls + 1
    /\ UNCHANGED <<lib_single, scriptVars, algVars, simVars>>

CallThirdOrder == Returned("third_order_system", third_order_system(arg))
CallRLOpen == Returned("rl_circuit_open", rl_circuit_open(arg))
CallRLClosed == Returned("rl_circuit_closed", rl_circuit_closed(arg))

NextCalls == Prepare \/ CallThirdOrder \/ CallRLOpen \/ CallRLClosed

SpecCalls == InitCalls /\ [][NextCalls]_vars

\* ------------------------------------------------------------ the script
\* the value the model gives every recorded output sample
OutVals == {0}

\* the data rows <<time, output>> a CSV file under output/ may hold
Recordings ==
    UNION {{[i \in 1..Len(g) |-> <<g[i], y>>] : y \in OutVals} : g \in Grids}

\* np.loadtxt gives a two-dimensional array only for two rows or more:
\* data[:, 0] raises IndexError on the one-dimensional array of 0 or 1 row
load_aule_simulated_data(rows) ==
    IF Len(rows) < 2 THEN LibError("IndexError")
    ELSE [kind |-> "data",
          time |-> [i \in 1..Len(rows) |-> ToFloat(rows[i][1])],
          output |-> [i \in 1..Len(rows) |-> ToFloat(rows[i][2])]]

NoAxes == [lines |-> <<>>, title |-> "", xlabel |-> "", ylabel |-> "",
           legend |-> <<>>, grid |-> FALSE]

Curve(x, y, style) == [x |-> x, y |-> y, style |-> style]

\* the reference is drawn first
plot_swapped(ax, time, output, ref, title) ==
    [lines |-> ax.lines \o <<Curve(time, output, "r"), Curve(ref.T, ref, "k--")>>,
     title |-> title, xlabel |-> "time (s)", ylabel |-> "output",
     legend |-> <<"Reference", "Output">>, grid |-> TRUE]

plot_both_responses(ax, time, output, ref, title) ==
    [lines |-> ax.lines \o <<Curve(ref.T, ref, "k--"), Curve(time, output, "r")>>,
     title |-> title, xlabel |-> "time (s)", ylabel |-> "output",
     legend |-> <<"Reference", "Output">>, grid |-> TRUE]

Init ==
    /\ CallerIdle
    /\ AlgebraIdle
    /\ SimIdle
    /\ lib_single \in {"response", "ValueError"}
    /\ pc = "figure" /\ gca = 0 /\ axes = <<>> /\ shown = FALSE /\ error = "none"
    /\ time_3rd_order = <<>> /\ output_3rd_order = <<>> /\ ref_3rd_order = None
    /\ time_rl_open = <<>> /\ output_rl_open = <<>> /\ ref_rl_open = None
    /\ time_rl_closed = <<>> /\ output_rl_closed = <<>> /\ ref_rl_closed = None

Frame == UNCHANGED <<callVars, algVars, simVars, lib_single>>

Abort(e) == pc' = "aborted" /\ error' = e

\* plt.rcParams[...] = True; plt.figure()
Figure ==
    /\ pc = "figure"
    /\ axes' = [k \in 1..3 |-> NoAxes]
    /\ pc' = "subplot1"
    /\ UNCHANGED <<gca, shown, error,
                   time_3rd_order, output_3rd_order, ref_3rd_order,
                   time_rl_open, output_rl_open, ref_rl_open,
                   time_rl_closed, output_rl_closed, ref_rl_closed>>
    /\ Frame

\* plt.subplot(3, 1, k)
Subplot(at, k, next) ==
    /\ pc = at
    /\ gca' = k
    /\ pc' = next
    /\ UNCHANGED <<axes, shown, error,
                   time_3rd_order, output_3rd_order, ref_3rd_order,
                   time_rl_open, output_rl_open, ref_rl_open,
                   time_rl_closed, output_rl_closed, ref_rl_closed>>
    /\ Frame

Subplot1 == Subplot("subplot1", 1, "load1")
Subplot2 == Subplot("subplot2", 2, "load2")
Subplot3 == Subplot("subplot3", 3, "load3")

Load1 ==
    /\ pc = "load1"
    /\ \E rows \in Recordings :
         LET d == load_aule_simulated_data(rows)
         IN  IF IsError(d)
             THEN /\ Abort(d.err)
                  /\ UNCHANGED <<time_3rd_order, output_3rd_order>>
             ELSE /\ time_3rd_order' = d.time
                  /\ output_3rd_order' = d.output
                  /\ pc' = "sim1"
                  /\ UNCHANGED error
    /\ UNCHANGED <<gca, axes, shown, ref_3rd_order,
                   time_rl_open, output_rl_open, ref_rl_open,
                   time_rl_closed, output_rl_closed, ref_rl_closed>>
    /\ Frame

Load2 ==
    /\ pc = "load2"
    /\ \E rows \in Recordings :
         LET d == load_aule_simulated_data(rows)
         IN  IF IsError(d)
             THEN /\ Abort(d.err)
                  /\ UNCHANGED <<time_rl_open, output_rl_open>>
             ELSE /\ time_rl_open' = d.time
                  /\ output_rl_open' = d.output
                  /\ pc' = "sim2"
                  /\ UNCHANGED error
    /\ UNCHANGED <<gca, axes, shown, ref_rl_open,
                   time_3rd_order, output_3rd_order, ref_3rd_order,
                   time_rl_closed, output_rl_closed, ref_rl_closed>>
    /\ Frame

Load3 ==
    /\ pc = "load3"
    /\ \E rows \in Recordings :
         LET d == load_aule_simulated_data(rows)
         IN  IF IsError(d)
             THEN /\ Abort(d.err)
                  /\ UNCHANGED <<time_rl_closed, output_rl_closed>>
             ELSE /\ time_rl_closed' = d.time
                  /\ output_rl_closed' = d.output
                  /\ pc' = "sim3"
                  /\ UNCHANGED error
    /\ UNCHANGED <<gca, axes, shown, ref_rl_closed,
                   time_3rd_order, output_3rd_order, ref_3rd_order,
                   time_rl_open, output_rl_open, ref_rl_open>>
    /\ Frame

\* ref_time_3rd_order, ref_3rd_order_output = third_order_system(time_3rd_order)
Sim1 ==
    /\ pc = "sim1"
    /\ LET r == third_order_system(time_3rd_order)
       IN  IF IsError(r)
           THEN Abort(r.err) /\ UNCHANGED ref_3rd_order
           ELSE ref_3rd_order' = r /\ pc' = "plot1" /\ UNCHANGED error
    /\ UNCHANGED <<gca, axes, shown, time_3rd_order, output_3rd_order,
                   time_rl_open, output_rl_open, ref_rl_open,
                   time_rl_closed, output_rl_closed, ref_rl_closed>>
    /\ Frame

\* ref_time_rl_open, ref_rl_open_output = rl_circuit_open(time_rl_open)
Sim2 ==
    /\ pc = "sim2"
    /\ LET r == rl_circuit_open(time_rl_open)
       IN  IF IsError(r)
           THEN Abort(r.err) /\ UNCHANGED ref_rl_open
           ELSE ref_rl_open' = r /\ pc' = "plot2" /\ UNCHANGED error
    /\ UNCHANGED <<gca, axes, shown, time_rl_open, output_rl_open,
                   time_3rd_order, output_3rd_order, ref_3rd_order,
                   time_rl_closed, output_rl_closed, ref_rl_closed>>
    /\ Frame

\* ref_time_rl_closed, ref_rl_closed_output = rl_circuit_closed(time_rl_open)
Sim3 ==
    /\ pc = "sim3"
    /\ LET r == rl_circuit_closed(time_rl_open)
       IN  IF IsError(r)
           THEN Abort(r.err) /\ UNCHANGED ref_rl_closed
           ELSE ref_rl_closed' = r /\ pc' = "plot3" /\ UNCHANGED error
    /\ UNCHANGED <<gca, axes, shown, time_rl_closed, output_rl_closed,
                   time_3rd_order, output_3rd_order, ref_3rd_order,
                   time_rl_open, output_rl_open, ref_rl_open>>
    /\ Frame

\* plot_both_responses(...) draws on the subplot selected last
Plot(at, time, output, ref, title, next) ==
    /\ pc = at
    /\ axes' = [axes EXCEPT ![gca] = plot_both_responses(@, time, output, ref, title)]
    /\ pc' = next
    /\ UNCHANGED <<gca, shown, error,
                   time_3rd_order, output_3rd_order, ref_3rd_order,
                   time_rl_open, output_rl_open, ref_rl_open,
                   time_rl_closed, output_rl_closed, ref_rl_closed>>
    /\ Frame

Plot1 ==
    Plot("plot1", time_3rd_order, output_3rd_order, ref_3rd_order,
         "Third Order System Step Response", "subplot2")
Plot2 ==
    Plot("plot2", time_rl_open, output_rl_open, ref_rl_open,
         "Open Loop RL Circuit Step Response", "subplot3")
Plot3 ==
    Plot("plot3", time_rl_closed, output_rl_closed, ref_rl_closed,
         "Closed Loop RL Circuit Step Response", "show")

\* plt.show()
Show ==
    /\ pc = "show"
    /\ shown' = TRUE
    /\ pc' = "done"
    /\ UNCHANGED <<gca, axes, error,
                   time_3rd_order, output_3rd_order, ref_3rd_order,
                   time_rl_open, output_rl_open, ref_rl_open,
                   time_rl_closed, output_rl_closed, ref_rl_closed>>
    /\ Frame

Next ==
    \/ Figure
    \/ Subplot1 \/ Load1 \/ Sim1 \/ Plot1
    \/ Subplot2 \/ Load2 \/ Sim2 \/ Plot2
    \/ Subplot3 \/ Load3 \/ Sim3 \/ Plot3
    \/ Show

Spec == Init /\ [][Next]_vars

\* ------------------------------------------------------------ composition
\* coefficient lists of degree at most MaxDeg
RECURSIVE CoefSeqs(_)
CoefSeqs(n) ==
    IF n = 0 THEN {<<>>}
    ELSE {<<c>> \o p : c \in (0 - MaxCoef)..MaxCoef, p \in CoefSeqs(n - 1)}

Polys == UNION {CoefSeqs(n) : n \in 1..(MaxDeg + 1)}

\* the right operands of pid * plant: none (the unit), and the two plants
Plants == {Unity, PlantThird, PlantRLClosed}

InitAlgebra ==
    /\ ScriptIdle
    /\ CallerIdle
    /\ SimIdle
    /\ lib_single = "response"
    /\ AlgebraIdle

AlgFrame == UNCHANGED <<scriptVars, callVars, simVars, lib_single>>

\* the operands third_order_system builds
ChooseThird ==
    /\ g1 = None
    /\ g1' = PidThird /\ g2' = PlantThird
    /\ UNCHANGED <<open_loop, closed_loop>>
    /\ AlgFrame

\* the operands rl_circuit_closed builds
ChooseRL ==
    /\ g1 = None
    /\ g1' = PidRL /\ g2' = PlantRLClosed
    /\ UNCHANGED <<open_loop, closed_loop>>
    /\ AlgFrame

\* any controller tf(num, den) the constructor accepts
ChooseAny ==
    /\ g1 = None
    /\ \E num \in Polys, den \in Polys, p \in Plants :
          /\ ~IsError(Tf(FloatPoly(num), FloatPoly(den)))
          /\ g1' = Tf(FloatPoly(num), FloatPoly(den))
          /\ g2' = p
    /\ UNCHANGED <<open_loop, closed_loop>>
    /\ AlgFrame

\* open_loop = pid * plant
Multiply ==
    /\ g1 # None /\ open_loop = None
    /\ open_loop' = Series(g1, g2)
    /\ UNCHANGED <<g1, g2, closed_loop>>
    /\ AlgFrame

\* closed_loop = ct.feedback(open_loop, 1)
Close ==
    /\ open_loop # None /\ closed_loop = None
    /\ closed_loop' = Feedback(open_loop, Unity)
    /\ UNCHANGED <<g1, g2, open_loop>>
    /\ AlgFrame

NextAlgebra == ChooseThird \/ ChooseRL \/ ChooseAny \/ Multiply \/ Close

SpecAlgebra == InitAlgebra /\ [][NextAlgebra]_vars

\* ------------------------------------------------------------ step response
\* step_response samples the response of a system to the unit step from the
\* zero state.  The library computes it in floating point; here the state
\* equation is integrated by forward Euler with the time step
\* 1/StepsPerSecond, in fixed-point values of which one unit is 1/Scale.
Scale == 10 * 1000 * 1000

RoundDiv(a, b) == (2 * a + b) \div (2 * b)

\* a rational coefficient times a fixed-point value
Times(r, x) == RoundDiv(r[1] * x, r[2])

\* The controllable canonical realization of num/den, den of degree n:
\* w_i' = w_(i+1) for i < n, w_n' = u - sum_j a_j w_(n+1-j),
\* y = sum_j b_j w_(n+1-j), with a = den / den[1] and b = num / den[1].
CoefA(sys, j) == RDiv(sys.den[j + 1], sys.den[1])
CoefB(sys, j) ==
    LET b == PadTo(sys.num, Len(sys.den))
    IN  RDiv(b[j + 1], sys.den[1])

Deriv(sys, w, u) ==
    LET n == Order(sys)
    IN  [i \in 1..n |->
            IF i < n THEN w[i + 1]
            ELSE u - ISum([j \in 1..n |-> Times(CoefA(sys, j), w[n + 1 - j])], n)]

Output(sys, w) ==
    LET n == Order(sys)
    IN  ISum([j \in 1..n |-> Times(CoefB(sys, j), w[n + 1 - j])], n)

\* the unit step from the zero state, one time step 1/StepsPerSecond on
Advance(sys, w) ==
    LET d == Deriv(sys, w, Scale)
    IN  [i \in 1..Len(w) |-> w[i] + RoundDiv(d[i], StepsPerSecond)]

\* the step response of the closed loop third_order_system builds
InitStep ==
    /\ ScriptIdle
    /\ CallerIdle
    /\ AlgebraIdle
    /\ lib_single = "response"
    /\ sim_sys = ClosedLoopThird
    /\ sim_x = [i \in 1..Order(ClosedLoopThird) |-> 0]
    /\ sim_k = 0

Step ==
    /\ sim_k < MaxSimTime * StepsPerSecond
    /\ sim_x' = Advance(sim_sys, sim_x)
    /\ sim_k' = sim_k + 1
    /\ UNCHANGED <<sim_sys, scriptVars, callVars, algVars, lib_single>>

NextStep == Step

SpecStep == InitStep /\ [][NextStep]_vars

\* ------------------------------------------------------------ properties
IsTf(x) == x.kind = "tf"

\* the value of a transfer function at s = 0: num(0) / den(0), undefined
\* when den(0) = 0
ValueAtZero(sys) ==
    IF Last(sys.den) = RZero THEN [defined |-> FALSE, value |-> RZero]
    ELSE [defined |-> TRUE, value |-> RDiv(Last(sys.num), Last(sys.den))]

Defined(v) == [defined |-> TRUE, value |-> v]

\* a pure proportional controller as the code writes it: (0 s^2 + Kp s + 0) / s
Proportional(g) ==
    /\ IsTf(g)
    /\ g.den = <<ROne, RZero>>
    /\ Len(g.num) = 2 /\ g.num[2] = RZero /\ g.num[1] # RZero

GainLaw(kp, k) == RDiv(RMul(kp, k), RAdd(ROne, RMul(kp, k)))

\* the closed loop of a proportional controller and a plant with a DC gain
ProportionalLoop ==
    /\ closed_loop # None /\ IsTf(closed_loop)
    /\ Proportional(g1)
    /\ ValueAtZero(ToTf(g2)).defined

ExpectedGain == GainLaw(g1.num[1], ValueAtZero(ToTf(g2)).value)

\* C3 (as stated): the closed-loop transfer function of a proportional
\* controller Kp and a plant of DC gain K, evaluated at s = 0, is defined and
\* equals Kp K / (1 + Kp K): 25/31 in third_order_system, 1/6 in
\* rl_circuit_closed.
C3_DcGainAtZero ==
    ProportionalLoop =>
        /\ ValueAtZero(closed_loop) = Defined(ExpectedGain)
        /\ (g1 = PidThird /\ g2 = PlantThird
               => ValueAtZero(closed_loop) = Defined(Rat(25, 31)))
        /\ (g1 = PidRL /\ g2 = PlantRLClosed
               => ValueAtZero(closed_loop) = Defined(Rat(1, 6)))

\* C3 (amended): the closed loop the code builds keeps the factor s of the
\* controller (Kp s)/s in numerator and denominator, so its value at s = 0
\* is 0/0; with that factor cancelled its value at s = 0 (the limit the step
\* response converges to) is Kp K / (1 + Kp K): 25/31 in third_order_system,
\* 1/6 in rl_circuit_closed.
C3_DcGainLimit ==
    ProportionalLoop =>
        /\ ~ValueAtZero(closed_loop).defined
        /\ ValueAtZero(CancelS(closed_loop)) = Defined(ExpectedGain)
        /\ (g1 = PidThird /\ g2 = PlantThird
               => ValueAtZero(CancelS(closed_loop)) = Defined(Rat(25, 31)))
        /\ (g1 = PidRL /\ g2 = PlantRLClosed
               => ValueAtZero(CancelS(closed_loop)) = Defined(Rat(1, 6)))

C3_Witness ==
    /\ ProportionalLoop
    /\ g1 = PidThird /\ g2 = PlantThird
    /\ ValueAtZero(CancelS(closed_loop)) = Defined(Rat(25, 31))

SumDenNum == PolyAdd(open_loop.den, open_loop.num)

\* a polynomial with a positive leading and a negative other coefficient
\* has a root strictly in the right half plane
MixedSigns(p) ==
    RPos(p[1]) /\ \E j \in 1..Len(p) : RPos(RNeg(p[j]))

FeedbackLawWith(rejection) ==
    closed_loop # None =>
        IF AllZero(SumDenNum)
        THEN closed_loop = LibError(rejection)
        ELSE /\ IsTf(closed_loop)
             /\ closed_loop.num = Truncate(open_loop.num)
             /\ closed_loop.den =
                   (IF AllZero(open_loop.num) THEN <<ROne>> ELSE Truncate(SumDenNum))

C4_UnstableAccepted ==
    /\ closed_loop # None /\ IsTf(closed_loop)
    /\ MixedSigns(closed_loop.den)

\* C5: open_loop = pid * plant is (num1 num2)/(den1 den2) with nothing
\* cancelled, so the order of an open loop with a non-zero numerator is the
\* sum of the operands' orders: 1 + 3 = 4 in third_order_system, 1 + 1 = 2 in
\* rl_circuit_closed.
C5_SeriesOrder ==
    LET a == ToTf(g1)
        b == ToTf(g2)
    IN  (open_loop # None /\ ~AllZero(a.num) /\ ~AllZero(b.num)) =>
            /\ IsTf(open_loop)
            /\ open_loop.num = PolyMul(a.num, b.num)
            /\ open_loop.den = PolyMul(a.den, b.den)
            /\ Order(open_loop) = Order(a) + Order(b)
            /\ (g1 = PidThird /\ g2 = PlantThird
                   => Order(a) = 1 /\ Order(b) = 3 /\ Order(open_loop) = 4)
            /\ (g1 = PidRL /\ g2 = PlantRLClosed
                   => Order(a) = 1 /\ Order(b) = 1 /\ Order(open_loop) = 2)

\* the open loop of third_order_system, of order 4, with the common root
\* s = 0 of numerator and denominator kept
C5_Witness ==
    /\ open_loop # None
    /\ g1 = PidThird /\ g2 = PlantThird
    /\ Order(open_loop) = 4
    /\ Last(open_loop.num) = RZero /\ Last(open_loop.den) = RZero

Called(f) == cpc = "idle" /\ fn = f

\* C1 (as stated): the time values of the trajectory a simulation returns
\* equal the time grid it was given, element by element.
C1_GridFidelity ==
    (cpc = "idle" /\ fn # "none" /\ Len(arg) >= 2 /\ ret.kind = "response")
        => ret.T = arg

\* C6 (as stated): a simulation on a grid of fewer than 2 points fails with
\* EmptyGridError and returns no trajectory.
C6_EmptyGridError ==
    (cpc = "idle" /\ fn # "none" /\ Len(arg) < 2)
        => ret = LibError("EmptyGridError")

TfEquiv(a, b) ==
    Truncate(PolyMul(a.num, b.den)) = Truncate(PolyMul(b.num, a.den))

\* C9: the state-space plant rl_circuit_open simulates has the transfer
\* function C (sI - A)^-1 B + D = 20/(s + 100), which is 1/(0.05 s + 5), the
\* plant of rl_circuit_closed.
C9_SamePlant ==
    (Called("rl_circuit_open") /\ ret.kind = "response") =>
        /\ ret.sys.kind = "ss"
        /\ Ss2Tf(ret.sys) = Tf(<<ToFloat(20)>>, <<ROne, ToFloat(100)>>)
        /\ TfEquiv(Ss2Tf(ret.sys), PlantRLClosed)

C9_Witness ==
    /\ Called("rl_circuit_open") /\ ret.kind = "response"
    /\ TfEquiv(Ss2Tf(ret.sys), PlantRLClosed)

\* C2 (as stated): every reference trajectory of the script is the
\* simulation over the time grid loaded for its own scenario.
C2_OwnGrid ==
    /\ ref_3rd_order # None => ref_3rd_order = third_order_system(time_3rd_order)
    /\ ref_rl_open # None => ref_rl_open = rl_circuit_open(time_rl_open)
    /\ ref_rl_closed # None => ref_rl_closed = rl_circuit_closed(time_rl_closed)

Plotted(k) == k \in DOMAIN axes /\ axes[k].lines # <<>>

Loaded == <<time_3rd_order, time_rl_open, time_rl_closed>>
Outputs == <<output_3rd_order, output_rl_open, output_rl_closed>>
Refs == <<ref_3rd_order, ref_rl_open, ref_rl_closed>>

\* C10: the script handles the scenarios k = 1, 2, 3 in turn: subplot k is
\* selected before recording k is loaded, the recording is loaded before the
\* reference is simulated, and both before the plot; scenario k is plotted
\* before subplot k + 1 is selected.  A plotted subplot k holds exactly two
\* curves, the reference of scenario k (dashed, drawn first) and its
\* recording (solid), and the figure is shown only once all three are plotted.
C10_Sequence ==
    /\ \A k \in 1..3 :
          /\ Loaded[k] # <<>> => (gca >= k /\ Len(Outputs[k]) = Len(Loaded[k]))
          /\ Refs[k] # None => Loaded[k] # <<>>
          /\ Plotted(k) =>
                /\ Refs[k] # None
                /\ axes[k].lines = <<Curve(Refs[k].T, Refs[k], "k--"),
                                     Curve(Loaded[k], Outputs[k], "r")>>
          /\ (k > 1 /\ gca >= k) => Plotted(k - 1)
          /\ (k \in DOMAIN axes /\ gca < k) => axes[k] = NoAxes
    /\ shown => \A k \in 1..3 : Plotted(k)
    /\ pc = "done" <=> shown

\* the script ran to the end on three different recordings
C10_Witness ==
    /\ pc = "done" /\ shown
    /\ time_3rd_order # time_rl_open
    /\ time_rl_open # time_rl_closed
    /\ time_3rd_order # time_rl_closed
    /\ Len(time_rl_closed) = 3

RLess(x, y) == RPos(RAdd(y, RNeg(x)))

\* Routh-Hurwitz for a polynomial of degree 1 to 4 with a positive leading
\* coefficient: every root lies strictly in the left half plane
Hurwitz(p) ==
    LET n == Len(p) - 1
        a(i) == p[n + 1 - i]
    IN  /\ n \in 1..4
        /\ \A i \in 1..Len(p) : RPos(p[i])
        /\ n = 3 => RLess(RMul(a(3), a(0)), RMul(a(2), a(1)))
        /\ n = 4 =>
              /\ RLess(RMul(a(4), a(1)), RMul(a(3), a(2)))
              /\ RLess(RAdd(RMul(a(4), RMul(a(1), a(1))),
                            RMul(a(0), RMul(a(3), a(3)))),
                       RMul(a(3), RMul(a(2), a(1))))

\* the final value of the step response, in fixed point
FinalValue ==
    LET v == ValueAtZero(CancelS(sim_sys)).value
    IN  RoundDiv(v[1] * Scale, v[2])

\* the output is within 2% of the final value
InBand == 50 * Abs(Output(sim_sys, sim_x) - FinalValue) <= Abs(FinalValue)

\* C8 (as stated): every pole of the closed loop third_order_system builds
\* lies strictly in the left half plane, and its step response is within 2%
\* of its final value from 5 seconds on.
C8_SettlesIn5 ==
    /\ Hurwitz(sim_sys.den)
    /\ sim_k >= 5 * StepsPerSecond => InBand

\* C8 (amended): the closed loop third_order_system builds,
\* 25 s / (s^4 + 6 s^3 + 11 s^2 + 31 s), has a pole at s = 0 that its zero at
\* s = 0 cancels and three poles strictly in the left half plane; its step
\* response stays bounded (below twice the step) and is within 2% of its
\* final value 25/31 from 10 seconds on (it settles after about 8.1 s, not
\* within 5 s).
C8_SettlesIn10 ==
    /\ Last(sim_sys.den) = RZero /\ Last(sim_sys.num) = RZero
    /\ ~Hurwitz(sim_sys.den)
    /\ Hurwitz(CancelS(sim_sys).den)
    /\ ValueAtZero(CancelS(sim_sys)) = Defined(Rat(25, 31))
    /\ Abs(Output(sim_sys, sim_x)) <= 2 * Scale
    /\ sim_k >= 10 * StepsPerSecond => InBand

\* the response is still outside the 2% band after 8 seconds
C8_Witness ==
    /\ sim_k > 8 * StepsPerSecond
    /\ ~InBand

====
